---- MODULE Spec2Model ----
(***************************************************************************)
(* Model of the Slides component of tui-slides                             *)
(* (src/src/components/slides.rs): navigation state over a deck loaded     *)
(* from a JSON file, the per-slide image cache, and the draw pass.         *)
(*                                                                         *)
(* A Rust panic (expect / unwrap / index out of bounds / arithmetic        *)
(* overflow in a debug build / remainder by zero) ends the component:      *)
(* status becomes "panicked", fault names the panic, the fields keep the   *)
(* values they had when the panic was raised and no handler runs again.    *)
(* Option<T> is modelled as a sequence: << >> is None, <<v>> is Some(v).   *)
(***************************************************************************)
EXTENDS Integers, Sequences, FiniteSets, TLC

\* Largest number of slides of a deck read from disk.
MaxSlides == 3

\* u16 arithmetic of ratatui's Rect fields.
U16Mod == 2^16
U16Max == U16Mod - 1

\* The two ways the crate can be built: integer overflow panics in a debug
\* build and wraps in a release build.
Builds == {"debug", "release"}

Rect(x, y, w, h) == [x |-> x, y |-> y, width |-> w, height |-> h]

\* enums.rs ContentJson: type_, content, rect.  resolvable says whether the
\* file an Image item names can be opened and decoded (a fact of the file
\* system next to the deck, fixed per item here).
ContentJson(t, c, r, ok) == [type_ |-> t, content |-> c, rect |-> r, resolvable |-> ok]

\* enums.rs SlideJson
SlideJson(t, c) == [title |-> t, content |-> c]

\* The slides decks are made of: one without images (a line filling the box
\* and a paragraph at the largest u16 offset), one with two images around a
\* text line (one at offset 0, one without rect), one whose image file is
\* missing.
SlideIntro ==
    SlideJson(<<"Intro">>,
              << ContentJson("Line", "hi", << >>, TRUE),
                 ContentJson("Paragraph", "far", << Rect(U16Max, U16Max, 4, 4) >>, TRUE) >>)
SlideTwoImages ==
    SlideJson(<< >>,
              << ContentJson("Image", "a.png", << Rect(0, 0, 10, 5) >>, TRUE),
                 ContentJson("Line", "x", << Rect(1, 1, 5, 1) >>, TRUE),
                 ContentJson("Image", "b.png", << >>, TRUE) >>)
SlideMissingImage ==
    SlideJson(<<"Missing">>,
              << ContentJson("Paragraph", "p", << >>, TRUE),
                 ContentJson("Image", "missing.png", << >>, FALSE) >>)
SlideCatalogue == {SlideIntro, SlideTwoImages, SlideMissingImage}

SeqsUpTo(S, n) == UNION {[1..k -> S] : k \in 0..n}

\* enums.rs SlidesJson (box_size as slides.rs reads it: width, height)
SlidesJson(b, s) == [box_size |-> b, slides |-> s]
FullBox == [width |-> 100, height |-> 100]
Decks == {SlidesJson(FullBox, s) : s \in SeqsUpTo(SlideCatalogue, MaxSlides)}

\* What get_json_slides can find at the path: nothing it can open, text that
\* is no deck, or a deck.
Files == {[kind |-> "unreadable", deck |-> << >>], [kind |-> "malformed", deck |-> << >>]}
         \cup {[kind |-> "deck", deck |-> <<d>>] : d \in Decks}

\* Terminal areas handed to draw.
Areas == {Rect(0, 0, 80, 24), Rect(1, 1, 40, 12)}

\* update's actions other than Next, Previous and Reload
OtherActions == {"Tick", "Quit"}

VARIABLES
    status,        \* "new" (constructed), "running" (init returned), "panicked"
    fault,         \* the panic that ended the component, or "none"
    result,        \* what the last handler returned: "Ok", or "none" if it did not return
    build,         \* debug or release
    json_slides,   \* Slides.json_slides
    slides,        \* Slides.slides : Option<SlidesJson>
    slide_index,   \* Slides.slide_index
    slide_count,   \* Slides.slide_count
    images,        \* Slides.images
    lastOp,        \* history: the last handler that ran
    lastLoad,      \* history: what the last handler found on disk ("none" if it read nothing)
    preIndex,      \* history: slide_index before the last handler
    prevOp,        \* history: the handler before the last one
    prePreIndex,   \* history: slide_index before that handler
    runLen,        \* history: number of consecutive Next handlers just run (at most slide_count)
    runStart,      \* history: slide_index before the first of them
    rebuilds,      \* history: number of store_images calls the last handler made
    builtFor,      \* history: <<slides, slide_index>> as store_images last read them
    frame          \* history: the draw calls and image counter of the last draw pass

vars == <<status, fault, result, build, json_slides, slides, slide_index, slide_count,
          images, lastOp, lastLoad, preIndex, prevOp, prePreIndex, runLen, runStart,
          rebuilds, builtFor, frame>>


\* Where the deck is read from (init's json_slides argument).
DeckPath == "talk/slides.json"

\* The fields of Slides that the handlers read and write, as one record.
Self == [json_slides |-> json_slides, slides |-> slides, slide_index |-> slide_index,
         slide_count |-> slide_count, images |-> images]

\* What running a method gives: the fields after it, the panic it raised (or
\* "none"), and, in order, the <<slides, slide_index>> every store_images
\* call it made has read.
Outcome(self, f, b) == [self |-> self, fault |-> f, built |-> b]

-----------------------------------------------------------------------------
(* Slides::get_json_slides *)

\* File::open(..).expect, read_to_string(..).expect and from_str(..).unwrap
\* panic before any field is written; otherwise slides and slide_count are
\* replaced and slide_index is left as it was.
get_json_slides(self, file) ==
    IF file.kind = "unreadable" THEN Outcome(self, "open_failed", << >>)
    ELSE IF file.kind = "malformed" THEN Outcome(self, "parse_failed", << >>)
    ELSE Outcome([self EXCEPT !.slides = file.deck,
                              !.slide_count = Len(file.deck[1].slides)],
                 "none", << >>)

(* Slides::get_slide *)
EmptySlide == SlideJson(<< >>, << >>)

\* slides.slides[self.slide_index] panics when the index is not below the
\* length of the vector.
get_slide(self) ==
    IF self.slides = << >> THEN [slide |-> EmptySlide, fault |-> "none"]
    ELSE IF self.slide_index >= Len(self.slides[1].slides)
         THEN [slide |-> EmptySlide, fault |-> "index_out_of_bounds"]
         ELSE [slide |-> self.slides[1].slides[self.slide_index + 1], fault |-> "none"]

(* slide_builder::make_slide_image (not among the sources; after spec 4.3 and 7) *)
\* An Image item gives the decoded image of the file it names; a file that
\* cannot be opened or decoded raises the image resolution error.
make_slide_image(item) ==
    IF item.resolvable
    THEN [tag |-> "Image", img |-> item.content, fault |-> "none"]
    ELSE [tag |-> "none", img |-> "", fault |-> "image_resolution_error"]

\* Picker::new_resize_protocol: the handle prepared from a decoded image.  from
\* records the slide index and the position of the item it was prepared for.
new_resize_protocol(dyn_img, idx, k) == [prepared_from |-> dyn_img, from |-> <<idx, k>>]

(* Slides::store_images *)
\* A loop that treats an image it cannot get like an item that is no image.
RECURSIVE store_loop_skipping(_, _, _, _)
store_loop_skipping(items, k, idx, acc) ==
    IF k > Len(items) THEN [images |-> acc, fault |-> "none"]
    ELSE IF items[k].type_ = "Image" /\ make_slide_image(items[k]).tag = "Image"
         THEN store_loop_skipping(items, k + 1, idx,
                Append(acc, new_resize_protocol(make_slide_image(items[k]).img, idx, k)))
         ELSE store_loop_skipping(items, k + 1, idx, acc)

\* The loop over slide.content: only Image items are looked at, and a handle
\* is pushed only when make_slide_image gave the Image variant.
RECURSIVE store_loop(_, _, _, _)
store_loop(items, k, idx, acc) ==
    IF k > Len(items) THEN [images |-> acc, fault |-> "none"]
    ELSE IF items[k].type_ = "Image"
         THEN LET d_img == make_slide_image(items[k])
              IN IF d_img.fault # "none" THEN [images |-> acc, fault |-> d_img.fault]
                 ELSE IF d_img.tag = "Image"
                      THEN store_loop(items, k + 1, idx,
                                      Append(acc, new_resize_protocol(d_img.img, idx, k)))
                      ELSE store_loop(items, k + 1, idx, acc)
         ELSE store_loop(items, k + 1, idx, acc)

\* store_images without its images.clear().
store_images_keeping(self) ==
    LET g == get_slide(self)
        b == << <<self.slides, self.slide_index>> >>
    IN IF g.fault # "none"
       THEN Outcome(self, g.fault, b)
       ELSE LET l == store_loop(g.slide.content, 1, self.slide_index, self.images)
            IN Outcome([self EXCEPT !.images = l.images], l.fault, b)

\* images.clear() comes first, then get_slide, then the loop.  (f_path.parent()
\* is Some for every path File::open has opened.)
store_images(self) ==
    LET g == get_slide(self)
        b == << <<self.slides, self.slide_index>> >>
    IN IF g.fault # "none"
       THEN Outcome([self EXCEPT !.images = << >>], g.fault, b)
       ELSE LET l == store_loop(g.slide.content, 1, self.slide_index, << >>)
            IN Outcome([self EXCEPT !.images = l.images], l.fault, b)

\* Running method second on what method first left, unless first panicked.
Then(first, second_self) ==
    IF first.fault # "none" THEN first
    ELSE Outcome(second_self.self, second_self.fault, first.built \o second_self.built)

(* Slides::next_slide *)
\* next_slide stopping at the last slide instead of wrapping.
next_slide_stopping(self) ==
    IF self.slide_count = 0 THEN Outcome(self, "rem_by_zero", << >>)
    ELSE store_images([self EXCEPT !.slide_index =
                          IF self.slide_index + 1 < self.slide_count
                          THEN self.slide_index + 1 ELSE self.slide_index])

\* next_slide rebuilding the cache before it moves the index.
next_slide_rebuilding_first(self) ==
    IF self.slide_count = 0 THEN Outcome(self, "rem_by_zero", << >>)
    ELSE LET s == store_images(self)
         IN Outcome([s.self EXCEPT !.slide_index = (self.slide_index + 1) % self.slide_count],
                    s.fault, s.built)

\* s_index %= self.slide_count panics on a zero slide_count.
next_slide(self) ==
    IF self.slide_count = 0 THEN Outcome(self, "rem_by_zero", << >>)
    ELSE store_images([self EXCEPT !.slide_index = (self.slide_index + 1) % self.slide_count])

(* Slides::previous_slide *)
\* Stand-in for usize::MAX: only its being above every deck length matters.
UsizeMax == 2^31 - 1

\* previous_slide staying on the first slide instead of wrapping.
previous_slide_saturating(self, bld) ==
    IF self.slide_index = 0 THEN store_images(self)
    ELSE store_images([self EXCEPT !.slide_index = self.slide_index - 1])

\* self.slide_count - 1 on a zero slide_count panics in a debug build and
\* wraps in a release build.
previous_slide(self, bld) ==
    IF self.slide_index = 0
    THEN IF self.slide_count = 0
         THEN IF bld = "debug" THEN Outcome(self, "sub_overflow", << >>)
              ELSE store_images([self EXCEPT !.slide_index = UsizeMax])
         ELSE store_images([self EXCEPT !.slide_index = self.slide_count - 1])
    ELSE store_images([self EXCEPT !.slide_index = self.slide_index - 1])

(* Component::init for Slides *)
\* init that loads the deck and leaves the cache as it is.
component_init_without_rebuild(self, json, file) ==
    get_json_slides([self EXCEPT !.json_slides = json], file)

component_init(self, json, file) ==
    LET j == get_json_slides([self EXCEPT !.json_slides = json], file)
    IN Then(j, store_images(j.self))

(* Component::update for Slides, Action::Reload *)
reload(self, file) ==
    LET j == get_json_slides(self, file)
    IN Then(j, store_images(j.self))

-----------------------------------------------------------------------------
(* The draw pass *)

\* u16 a + b and a - b: a debug build panics when the result leaves 0..65535,
\* a release build wraps.
add_u16(a, b, bld) ==
    IF a + b > U16Max /\ bld = "debug" THEN [v |-> a, fault |-> "add_overflow"]
    ELSE [v |-> (a + b) % U16Mod, fault |-> "none"]

sub_u16(a, b, bld) ==
    IF a - b < 0 /\ bld = "debug" THEN [v |-> a, fault |-> "sub_overflow"]
    ELSE [v |-> (a - b + U16Mod) % U16Mod, fault |-> "none"]

FirstFault(fs) == IF \E i \in 1..Len(fs) : fs[i] # "none"
                  THEN fs[CHOOSE i \in 1..Len(fs) : fs[i] # "none" /\ \A j \in 1..(i - 1) : fs[j] = "none"]
                  ELSE "none"

(* layout::get_slides_layout (not among the sources; after spec 4.2) *)
\* The content box: the given percentages of the area, centred in it.
get_slides_layout(area, box_width, box_height) ==
    LET w == (area.width * box_width) \div 100
        h == (area.height * box_height) \div 100
    IN [content |-> Rect(area.x + (area.width - w) \div 2,
                         area.y + (area.height - h) \div 2, w, h)]

(* Slides::get_slide_rect *)
\* The item's rect is looked at only when a deck is loaded; x and y are added
\* with +=, width and height are overwritten.
get_slide_rect(self, rect, item_rect, bld) ==
    IF self.slides # << >> /\ item_rect # << >>
    THEN LET r == item_rect[1]
             x == add_u16(rect.x, r.x, bld)
             y == add_u16(rect.y, r.y, bld)
         IN [rect |-> Rect(x.v, y.v, r.width, r.height),
             fault |-> FirstFault(<<x.fault, y.fault>>)]
    ELSE [rect |-> rect, fault |-> "none"]

\* One draw call: the widget, the rectangle it is rendered at, and what it
\* shows (text, the numbers of the page indicator, the image handle).
DrawCall(kind, rect, text, nums, img) ==
    [kind |-> kind, rect |-> rect, text |-> text, nums |-> nums, img |-> img]

(* Slides::make_title *)
make_title(slide) == IF slide.title = << >> THEN "__title__" ELSE slide.title[1]

(* Slides::make_content_block *)
\* A page indicator showing the zero-based index.
make_content_block_zero_based(self) == <<self.slide_index, self.slide_count>>

make_content_block(self) == <<self.slide_index + 1, self.slide_count>>

(* slide_builder::make_slide_content (not among the sources; after spec 4.3) *)
\* One visual element per content item, of the variant of its type.
make_slide_content(item) ==
    IF item.type_ = "Image" THEN make_slide_image(item)
    ELSE [tag |-> item.type_, img |-> "", fault |-> "none"]

\* The border rectangle of an Image element: x -= 1, width += 2, y -= 1.
image_border_rect(slide_rect, bld) ==
    LET x == sub_u16(slide_rect.x, 1, bld)
        w == add_u16(slide_rect.width, 2, bld)
        y == sub_u16(slide_rect.y, 1, bld)
    IN [rect |-> Rect(x.v, y.v, w.v, slide_rect.height),
        fault |-> FirstFault(<<x.fault, w.fault, y.fault>>)]

\* The loop with an image counter that is never advanced.
RECURSIVE draw_loop_counter_stuck(_, _, _, _, _, _)
draw_loop_counter_stuck(self, items, k, content, bld, acc) ==
    IF k > Len(items) THEN [calls |-> acc.calls, img_index |-> acc.img_index, fault |-> "none"]
    ELSE
    LET item == items[k]
        w == make_slide_content(item)
        sr == get_slide_rect(self, content, item.rect, bld)
        stop(f) == [calls |-> acc.calls, img_index |-> acc.img_index, fault |-> f]
    IN IF sr.fault # "none" THEN stop(sr.fault)
       ELSE IF w.tag = "Image"
       THEN LET b == image_border_rect(sr.rect, bld)
                border == DrawCall("Block", b.rect, "", << >>, << >>)
            IN IF b.fault # "none" THEN stop(b.fault)
               ELSE IF acc.img_index >= Len(self.images)
               THEN [calls |-> Append(acc.calls, border), img_index |-> acc.img_index,
                     fault |-> "index_out_of_bounds"]
               ELSE draw_loop_counter_stuck(self, items, k + 1, content, bld,
                      [calls |-> acc.calls \o
                                 << border,
                                    DrawCall("StatefulImage", sr.rect, "", << >>,
                                             << self.images[acc.img_index + 1] >>) >>,
                       img_index |-> acc.img_index])
       ELSE draw_loop_counter_stuck(self, items, k + 1, content, bld,
              [calls |-> Append(acc.calls, DrawCall(w.tag, sr.rect, item.content, << >>, << >>)),
               img_index |-> acc.img_index])

\* The loop rendering the image before its border.
RECURSIVE draw_loop_image_first(_, _, _, _, _, _)
draw_loop_image_first(self, items, k, content, bld, acc) ==
    IF k > Len(items) THEN [calls |-> acc.calls, img_index |-> acc.img_index, fault |-> "none"]
    ELSE
    LET item == items[k]
        w == make_slide_content(item)
        sr == get_slide_rect(self, content, item.rect, bld)
        stop(f) == [calls |-> acc.calls, img_index |-> acc.img_index, fault |-> f]
    IN IF sr.fault # "none" THEN stop(sr.fault)
       ELSE IF w.tag = "Image"
       THEN LET b == image_border_rect(sr.rect, bld)
                border == DrawCall("Block", b.rect, "", << >>, << >>)
            IN IF b.fault # "none" THEN stop(b.fault)
               ELSE IF acc.img_index >= Len(self.images)
               THEN stop("index_out_of_bounds")
               ELSE draw_loop_image_first(self, items, k + 1, content, bld,
                      [calls |-> acc.calls \o
                                 << DrawCall("StatefulImage", sr.rect, "", << >>,
                                             << self.images[acc.img_index + 1] >>),
                                    border >>,
                       img_index |-> acc.img_index + 1])
       ELSE draw_loop_image_first(self, items, k + 1, content, bld,
              [calls |-> Append(acc.calls, DrawCall(w.tag, sr.rect, item.content, << >>, << >>)),
               img_index |-> acc.img_index])

\* The loop of draw over slide_items, from item k on; acc holds the draw calls
\* made and the image counter.
RECURSIVE draw_loop(_, _, _, _, _, _)
draw_loop(self, items, k, content, bld, acc) ==
    IF k > Len(items) THEN [calls |-> acc.calls, img_index |-> acc.img_index, fault |-> "none"]
    ELSE
    LET item == items[k]
        w == make_slide_content(item)
        sr == get_slide_rect(self, content, item.rect, bld)
        stop(f) == [calls |-> acc.calls, img_index |-> acc.img_index, fault |-> f]
    IN IF sr.fault # "none" THEN stop(sr.fault)
       ELSE IF w.tag = "Image"
       THEN LET b == image_border_rect(sr.rect, bld)
                border == DrawCall("Block", b.rect, "", << >>, << >>)
            IN IF b.fault # "none" THEN stop(b.fault)
               ELSE IF acc.img_index >= Len(self.images)
               THEN [calls |-> Append(acc.calls, border), img_index |-> acc.img_index,
                     fault |-> "index_out_of_bounds"]
               ELSE draw_loop(self, items, k + 1, content, bld,
                      [calls |-> acc.calls \o
                                 << border,
                                    DrawCall("StatefulImage", sr.rect, "", << >>,
                                             << self.images[acc.img_index + 1] >>) >>,
                       img_index |-> acc.img_index + 1])
       ELSE draw_loop(self, items, k + 1, content, bld,
              [calls |-> Append(acc.calls, DrawCall(w.tag, sr.rect, item.content, << >>, << >>)),
               img_index |-> acc.img_index])

(* Component::draw for Slides *)
\* make_slide_items builds every element before the first render call, so an
\* element that cannot be built stops the pass before anything is drawn.
draw(self, area, bld) ==
    LET box == IF self.slides # << >> THEN self.slides[1].box_size ELSE FullBox
        content == get_slides_layout(area, box.width, box.height).content
        ty == add_u16(content.y, 2, bld)
        title_rect == Rect(content.x, ty.v, content.width, content.height)
        g == get_slide(self)
        items == g.slide.content
        built == FirstFault([k \in 1..Len(items) |-> make_slide_content(items[k]).fault])
        head == << DrawCall("BigText", title_rect, make_title(g.slide), << >>, << >>),
                   DrawCall("Block", content, "", make_content_block(self), << >>) >>
    IN IF FirstFault(<<ty.fault, g.fault, built>>) # "none"
       THEN [calls |-> << >>, img_index |-> 0, fault |-> FirstFault(<<ty.fault, g.fault, built>>)]
       ELSE draw_loop(self, items, 1, content, bld, [calls |-> head, img_index |-> 0])

\* A draw pass taking the handles out of the cache instead of cloning them.
draw_fields_taking(self, area, bld) == [self EXCEPT !.images = << >>]

\* The fields of Slides after a draw pass: draw has &mut self but only reads
\* it (get_slide clones the slide, images[img_index].clone() the handle).
draw_fields(self, area, bld) == self

-----------------------------------------------------------------------------
(* The component as a state machine *)

NoArea == << >>

Init ==
    /\ status = "new"
    /\ fault = "none"
    /\ result = "none"
    /\ build \in Builds
    /\ json_slides = ""
    /\ slides = << >>
    /\ slide_index = 0
    /\ slide_count = 0
    /\ images = << >>
    /\ lastOp = "new"
    /\ lastLoad = "none"
    /\ preIndex = 0
    /\ prevOp = "new"
    /\ prePreIndex = 0
    /\ runLen = 0
    /\ runStart = 0
    /\ rebuilds = 0
    /\ builtFor = << >>
    /\ frame = [calls |-> << >>, img_index |-> 0, area |-> NoArea]

\* A handler of init or update has run with outcome out: the fields take the
\* values it left, a panic ends the component, and the history is advanced.
Handled(op, load, out) ==
    /\ json_slides' = out.self.json_slides
    /\ slides' = out.self.slides
    /\ slide_index' = out.self.slide_index
    /\ slide_count' = out.self.slide_count
    /\ images' = out.self.images
    /\ fault' = out.fault
    /\ status' = IF out.fault = "none" THEN "running" ELSE "panicked"
    /\ result' = IF out.fault = "none" THEN "Ok" ELSE "none"
    /\ lastOp' = op
    /\ lastLoad' = load
    /\ preIndex' = slide_index
    /\ prevOp' = lastOp
    /\ prePreIndex' = preIndex
    /\ IF op = "Next"
       THEN IF lastOp = "Next" /\ runLen < slide_count
            THEN runLen' = runLen + 1 /\ runStart' = runStart
            ELSE runLen' = 1 /\ runStart' = slide_index
       ELSE runLen' = 0 /\ runStart' = out.self.slide_index
    /\ rebuilds' = Len(out.built)
    /\ builtFor' = IF out.built = << >> THEN builtFor ELSE out.built[Len(out.built)]
    /\ frame' = [calls |-> << >>, img_index |-> 0, area |-> NoArea]
    /\ UNCHANGED build

\* Component::init: called once, before any update or draw.
init ==
    /\ status = "new"
    /\ \E file \in Files : Handled("init", file.kind, component_init(Self, DeckPath, file))

\* Component::update(Action::Next)
Update_Next ==
    /\ status = "running"
    /\ Handled("Next", "none", next_slide(Self))

\* Component::update(Action::Previous)
Update_Previous ==
    /\ status = "running"
    /\ Handled("Previous", "none", previous_slide(Self, build))

\* Component::update(Action::Reload)
Update_Reload ==
    /\ status = "running"
    /\ \E file \in Files : Handled("Reload", file.kind, reload(Self, file))

\* An update whose other actions fall through to the Next arm.
update_other_as_next(self, action) == next_slide(self)

\* Component::update with any other action: the `_ => {}` arm.
update_other(self, action) == Outcome(self, "none", << >>)

Update_Other ==
    /\ status = "running"
    /\ \E action \in OtherActions : Handled(action, "none", update_other(Self, action))

\* Component::draw: one draw pass over the given area.
Draw ==
    /\ status = "running"
    /\ \E area \in Areas :
         LET d == draw(Self, area, build)
         IN /\ frame' = [calls |-> d.calls, img_index |-> d.img_index, area |-> <<area>>]
            /\ fault' = d.fault
            /\ status' = IF d.fault = "none" THEN "running" ELSE "panicked"
            /\ result' = IF d.fault = "none" THEN "Ok" ELSE "none"
            /\ json_slides' = draw_fields(Self, area, build).json_slides
            /\ slides' = draw_fields(Self, area, build).slides
            /\ slide_index' = draw_fields(Self, area, build).slide_index
            /\ slide_count' = draw_fields(Self, area, build).slide_count
            /\ images' = draw_fields(Self, area, build).images
    /\ UNCHANGED <<build, lastOp,
                   lastLoad, preIndex, prevOp, prePreIndex, runLen, runStart, rebuilds,
                   builtFor>>

Next == init \/ Update_Next \/ Update_Previous \/ Update_Reload \/ Update_Other \/ Draw

Spec == Init /\ [][Next]_vars

-----------------------------------------------------------------------------
(* Properties *)

Navigations == {"Next", "Previous", "Reload"}

\* The last handler read a deck from disk (it got past get_json_slides).
DeckWasRead == lastOp \in {"init", "Reload"} /\ lastLoad = "deck"

IndexInRange == slides # << >> /\ slide_index < Len(slides[1].slides)

\* The content of the slide at slide_index (nothing when there is none).
CurrentContent == IF IndexInRange THEN slides[1].slides[slide_index + 1].content ELSE << >>

\* The positions of the Image items of a content list, and the position of
\* the j-th of them.
ImagePositions(items) == {k \in 1..Len(items) : items[k].type_ = "Image"}
NthImage(items, j) ==
    CHOOSE k \in ImagePositions(items) :
        Cardinality({i \in ImagePositions(items) : i <= k}) = j

\* C1: once init has run, whenever slide_count > 0 the index satisfies
\* 0 <= slide_index < slide_count, whatever Next, Previous and Reload did.
C1_IndexWithinCount ==
    (status # "new" /\ slide_count > 0) => (0 <= slide_index /\ slide_index < slide_count)

\* C2: a Reload that reads a deck of new_count > 0 slides leaves the index at
\* new_count - 1 if it was >= new_count before, and unchanged otherwise.
C2_ReloadClampsIndex ==
    (lastOp = "Reload" /\ lastLoad = "deck" /\ slide_count > 0)
        => slide_index = (IF preIndex >= slide_count THEN slide_count - 1 ELSE preIndex)

\* C3: while the component runs (so after every rebuild and at the start of
\* every draw pass) the cache has one entry per Image item of the current
\* slide, the j-th entry prepared from the j-th Image item of this slide, in
\* content order, and nothing else.
C3_CacheMirrorsImageItems ==
    status = "running" =>
        /\ Len(images) = Cardinality(ImagePositions(CurrentContent))
        /\ \A j \in 1..Len(images) :
              /\ images[j].prepared_from = CurrentContent[NthImage(CurrentContent, j)].content
              /\ images[j].from = <<slide_index, NthImage(CurrentContent, j)>>

\* C3's case: Next moved from a slide with two images to another slide with
\* two images and the cache was rebuilt for it.
C3_Witness ==
    /\ status = "running"
    /\ lastOp = "Next"
    /\ preIndex # slide_index
    /\ slides[1].slides[preIndex + 1] = SlideTwoImages
    /\ Len(images) = 2

\* C4: Next and Previous call the rebuild exactly once, so does a Reload that
\* has read its deck; the rebuild reads the index and the deck as the handler
\* leaves them, and every draw pass runs on a cache built for the index and
\* deck it draws.
C4_RebuildOncePerTransition ==
    /\ lastOp \in {"Next", "Previous"} => rebuilds = 1
    /\ (lastOp = "Reload" /\ lastLoad = "deck") => rebuilds = 1
    /\ (lastOp \in Navigations /\ rebuilds = 1) => builtFor = <<slides, slide_index>>
    /\ (status = "running" \/ frame.area # NoArea) => builtFor = <<slides, slide_index>>

\* C4's case: a draw pass right after a Next that moved the index.
C4_Witness ==
    /\ lastOp = "Next"
    /\ preIndex # slide_index
    /\ frame.area # NoArea
    /\ rebuilds = 1

\* C5: Next takes the index to (index + 1) mod slide_count, and slide_count
\* Next in a row bring it back to where it started.
C5_NextIsCyclic ==
    /\ (lastOp = "Next" /\ slide_count > 0) => slide_index = (preIndex + 1) % slide_count
    /\ (lastOp = "Next" /\ runLen = slide_count) => slide_index = runStart

\* C5's case: three Next in a row on a deck of three slides, started off
\* the first slide.
C5_Witness ==
    /\ lastOp = "Next"
    /\ slide_count = 3
    /\ runLen = 3
    /\ runStart = 1
    /\ status = "running"

\* C6: Previous takes index 0 to slide_count - 1 and any other index to
\* index - 1; Previous right after Next, and Next right after Previous, give
\* back the index from before the two.
C6_PreviousInvertsNext ==
    /\ (lastOp = "Previous" /\ slide_count > 0)
          => slide_index = (IF preIndex = 0 THEN slide_count - 1 ELSE preIndex - 1)
    /\ (lastOp = "Previous" /\ prevOp = "Next") => slide_index = prePreIndex
    /\ (lastOp = "Next" /\ prevOp = "Previous") => slide_index = prePreIndex

\* C6's case: Next wrapped from the last slide to the first and Previous
\* wrapped back.
C6_Witness ==
    /\ lastOp = "Previous"
    /\ prevOp = "Next"
    /\ slide_count >= 2
    /\ prePreIndex = slide_count - 1
    /\ preIndex = 0
    /\ slide_index = slide_count - 1

\* C7: for every content box and every item of the current slide,
\* get_slide_rect gives the box itself when the item has no rect, and
\* otherwise x = box.x + r.x, y = box.y + r.y, width = r.width,
\* height = r.height.
C7_ItemRectIsOffsetInBox ==
    status = "running" =>
        \A area \in Areas : \A k \in 1..Len(CurrentContent) :
            LET box == get_slides_layout(area, slides[1].box_size.width,
                                         slides[1].box_size.height).content
                item_rect == CurrentContent[k].rect
                got == get_slide_rect(Self, box, item_rect, build)
            IN /\ got.fault = "none"
               /\ got.rect = IF item_rect = << >> THEN box
                             ELSE Rect(box.x + item_rect[1].x, box.y + item_rect[1].y,
                                       item_rect[1].width, item_rect[1].height)

\* C8: a load or reload of a source that cannot be opened returns
\* LoadError::Unreadable, one of a source that is no deck returns
\* LoadError::Malformed, and neither ends the component.
C8_LoadFailureIsReturned ==
    /\ (lastOp \in {"init", "Reload"} /\ lastLoad = "unreadable")
          => (result = "Err(LoadError::Unreadable)" /\ status # "panicked")
    /\ (lastOp \in {"init", "Reload"} /\ lastLoad = "malformed")
          => (result = "Err(LoadError::Malformed)" /\ status # "panicked")

\* C9: a deck of zero slides is rejected by the load as LoadError::Malformed,
\* so no deck is ever held with slide_count = 0, and Next and Previous never
\* run with slide_count = 0.
C9_EmptyDeckIsRejected ==
    /\ ~(slides # << >> /\ slide_count = 0)
    /\ (DeckWasRead /\ slides # << >> /\ slides[1].slides = << >>)
          => result = "Err(LoadError::Malformed)"
    /\ fault \notin {"rem_by_zero", "sub_overflow"}

DrawPassRan == frame.area # NoArea

\* The render calls of the Image elements of a draw pass, in order.
ImageCalls(calls) == SelectSeq(calls, LAMBDA c : c.kind = "StatefulImage")

\* C11: when init has returned, slide_index is 0, slide_count is the number of
\* slides of the deck it read, and the cache was rebuilt once, for slide 0 of
\* that deck; a draw pass that follows finds it so.
C11_InitialState ==
    (lastOp = "init" /\ (status = "running" \/ DrawPassRan)) =>
        /\ slide_index = 0
        /\ slides # << >>
        /\ slide_count = Len(slides[1].slides)
        /\ rebuilds = 1
        /\ builtFor = <<slides, 0>>

\* C11's case: the first draw pass after init on a deck of three slides.
C11_Witness ==
    /\ lastOp = "init"
    /\ DrawPassRan
    /\ status = "running"
    /\ slide_count = 3

\* C12: in every draw pass the j-th Image element rendered shows cache entry
\* j (counted from the first entry), no read of the cache is out of bounds,
\* and the image counter ends at the number of Image elements rendered.
C12_ImageCounterIndexesCache ==
    DrawPassRan =>
        /\ fault # "index_out_of_bounds"
        /\ frame.img_index = Len(ImageCalls(frame.calls))
        /\ frame.img_index <= Len(images)
        /\ \A j \in 1..Len(ImageCalls(frame.calls)) :
              ImageCalls(frame.calls)[j].img = << images[j] >>

\* C12's case: a completed draw pass that rendered two images.
C12_Witness ==
    /\ DrawPassRan
    /\ status = "running"
    /\ frame.img_index = 2
    /\ Len(images) = 2

\* C13: a draw pass, over any area and whether or not it completes, leaves
\* the deck, slide_index, slide_count and the cached image list as they were.
C13_DrawChangesNoField ==
    [][DrawPassRan' => UNCHANGED <<slides, slide_index, slide_count, images>>]_vars

\* C13's case: a draw pass has run on a slide with a cache of two images.
C13_Witness ==
    /\ DrawPassRan
    /\ Len(images) = 2
    /\ slide_index > 0

\* The content box of the last draw pass.
FrameBox == get_slides_layout(frame.area[1], slides[1].box_size.width,
                               slides[1].box_size.height).content

\* The place in a draw pass of the first and of the last call made for item
\* k: two calls for the title and the frame, one per item before it and one
\* more per Image item before it.
FirstCallOf(items, k) == k + 2 + Cardinality({i \in ImagePositions(items) : i < k})
LastCallOf(items, k) == FirstCallOf(items, k) + (IF items[k].type_ = "Image" THEN 1 ELSE 0)

\* C14: a draw pass renders the title, then the frame with the page
\* indicator, then the items of the current slide in content order: one call
\* at its resolved rectangle for an item that is no image, the border and
\* then the image for an Image item.  A pass that completes has rendered
\* every item; a pass that a panic ends has rendered the items before it, in
\* that order.
C14_DrawOrder ==
    DrawPassRan =>
        LET items == CurrentContent
            calls == frame.calls
            all == 2 + Len(items) + Cardinality(ImagePositions(items))
            resolved(k) == get_slide_rect(Self, FrameBox, items[k].rect, build).rect
        IN /\ Len(calls) >= 2
           /\ Len(calls) <= all
           /\ status = "running" => Len(calls) = all
           /\ calls[1].kind = "BigText"
           /\ calls[1].text = make_title(slides[1].slides[slide_index + 1])
           /\ calls[2].kind = "Block"
           /\ calls[2].rect = FrameBox
           /\ calls[2].nums # << >>
           /\ \A k \in 1..Len(items) :
                 /\ FirstCallOf(items, k) <= Len(calls) => LastCallOf(items, k) <= Len(calls)
                 /\ LastCallOf(items, k) <= Len(calls) =>
                       IF items[k].type_ = "Image"
                       THEN /\ calls[FirstCallOf(items, k)].kind = "Block"
                            /\ calls[FirstCallOf(items, k)].nums = << >>
                            /\ calls[LastCallOf(items, k)].kind = "StatefulImage"
                            /\ calls[LastCallOf(items, k)].rect = resolved(k)
                       ELSE /\ calls[FirstCallOf(items, k)].kind = items[k].type_
                            /\ calls[FirstCallOf(items, k)].text = items[k].content
                            /\ calls[FirstCallOf(items, k)].rect = resolved(k)

\* C14's case: a completed pass over the slide with an image, a line and
\* another image: seven calls.
C14_Witness ==
    /\ DrawPassRan
    /\ status = "running"
    /\ IndexInRange
    /\ slides[1].slides[slide_index + 1] = SlideTwoImages
    /\ Len(frame.calls) = 7

\* C15: every draw pass renders the frame with the page indicator
\* slide_index + 1 / slide_count, and 1 <= slide_index + 1 <= slide_count.
C15_PageIndicator ==
    DrawPassRan =>
        /\ slide_count > 0
        /\ Len(frame.calls) >= 2
        /\ frame.calls[2].nums = <<slide_index + 1, slide_count>>
        /\ 1 <= frame.calls[2].nums[1]
        /\ frame.calls[2].nums[1] <= frame.calls[2].nums[2]

\* C15's case: a draw pass on the last of three slides, after a Previous that
\* wrapped.
C15_Witness ==
    /\ DrawPassRan
    /\ lastOp = "Previous"
    /\ preIndex = 0
    /\ slide_count = 3
    /\ frame.calls[2].nums = <<3, 3>>

\* C16: the border rendered before an image is the image's rectangle grown by
\* one cell on each side: x - 1, y - 1, width + 2, height + 2.
C16_BorderOneCellLarger ==
    DrawPassRan =>
        \A i \in 2..Len(frame.calls) :
            frame.calls[i].kind = "StatefulImage" =>
                frame.calls[i - 1].rect = Rect(frame.calls[i].rect.x - 1,
                                               frame.calls[i].rect.y - 1,
                                               frame.calls[i].rect.width + 2,
                                               frame.calls[i].rect.height + 2)

\* C17: get_slide_rect cannot fail: for every content box and every item rect
\* of the current slide, box.x + r.x and box.y + r.y fit in 16 bits and the
\* call does not panic.
C17_ItemRectNeverOverflows ==
    status = "running" =>
        \A area \in Areas : \A k \in 1..Len(CurrentContent) :
            LET box == get_slides_layout(area, slides[1].box_size.width,
                                         slides[1].box_size.height).content
                item_rect == CurrentContent[k].rect
            IN item_rect # << >> =>
                  /\ box.x + item_rect[1].x <= U16Max
                  /\ box.y + item_rect[1].y <= U16Max
                  /\ get_slide_rect(Self, box, item_rect, build).fault = "none"

\* C18: for every Image item of the current slide and every area, computing
\* the border rectangle stays within 0..65535: x - 1 >= 0, y - 1 >= 0,
\* width + 2 <= 65535, and the computation does not panic.
C18_BorderNeverUnderflows ==
    status = "running" =>
        \A area \in Areas : \A k \in ImagePositions(CurrentContent) :
            LET box == get_slides_layout(area, slides[1].box_size.width,
                                         slides[1].box_size.height).content
                sr == get_slide_rect(Self, box, CurrentContent[k].rect, build)
            IN sr.fault = "none" =>
                  /\ sr.rect.x - 1 >= 0
                  /\ sr.rect.y - 1 >= 0
                  /\ sr.rect.width + 2 <= U16Max
                  /\ image_border_rect(sr.rect, build).fault = "none"

\* A step of update with the given action (a draw pass keeps lastOp and sets
\* frame.area; a handler sets lastOp and clears frame.area).
UpdateStep(actions) == lastOp' \in actions /\ ~DrawPassRan'

\* C19: an update with Next or Previous leaves the deck and slide_count as
\* they were; an update with any action other than Next, Previous and Reload
\* leaves slide_index, slide_count, the deck and the cached images as they
\* were.
C19_UpdateFrame ==
    [][/\ UpdateStep({"Next", "Previous"}) => UNCHANGED <<slides, slide_count>>
       /\ UpdateStep(OtherActions) => UNCHANGED <<slide_index, slide_count, slides, images>>]_vars

\* C19's case: another action was handled right after a Next, on a slide off
\* the first with two cached images.
C19_Witness ==
    /\ lastOp \in OtherActions
    /\ prevOp = "Next"
    /\ slide_index > 0
    /\ Len(images) = 2
    /\ status = "running"

====
